---- MODULE Spec2Model ----
(***************************************************************************)
(* Model of the airtable client library (src/src/lib.rs): the query        *)
(* builder, the Paginator iterator and the create/update calls of Base.    *)
(*                                                                         *)
(* Rust values are represented as follows.                                 *)
(*   String            a TLA+ string                                       *)
(*   Option<X>         <<>> for None, <<x>> for Some(x)                    *)
(*   Vec<X>, IntoIter  a sequence (the iterator is its unconsumed suffix)  *)
(*   Result<X, E>      [ok |-> BOOLEAN, val |-> x]                         *)
(*   a URL             [path |-> String, query |-> sequence of <<k, v>>]   *)
(* The generic record type T is the `Word` of the crate documentation,     *)
(* reduced to its identifier and one column: [id, word].                   *)
(***************************************************************************)
EXTENDS Integers, Sequences, FiniteSets, TLC

\* ---------------------------------------------------------------- bounds
MaxPages == 2      \* longest chain of pages the remote table holds
MaxRecs == 2       \* most records on one page
MaxSorts == 2      \* most sort clauses a caller adds to one query
MaxFailures == 1   \* most failing GETs during one iteration
MaxCalls == 6      \* most calls of next on one of two concurrent paginators

\* ------------------------------------------------------------- constants
URL == "https://api.airtable.com/v0"
AppKey == "appWords"
TableName == "Words"

ViewNames == {"V", "W"}
Formulas == {"F", "G"}
SortDirection == {"Descending", "Ascending"}
SortClauses == {<<"A", "Descending">>, <<"B", "Ascending">>}

\* ---------------------------------------------------------------- Option
None == <<>>
Some(x) == <<x>>
is_some(o) == o # <<>>
is_none(o) == o = <<>>
unwrap(o) == o[1]

\* ---------------------------------------------------------------- Result
Ok(x) == [ok |-> TRUE, val |-> x]
Err == [ok |-> FALSE, val |-> <<>>]

\* (variant: `res.unwrap()` in place of `res.ok()?`, which panics on an Err)
OkTry_unwrap(res) == [return |-> FALSE, panic |-> ~res.ok, val |-> res.val]

\* `res.ok()?` inside a function returning Option: an Err makes the function
\* return None at once, an Ok hands over its value.  Nothing panics.
OkTry(res) == [return |-> ~res.ok, panic |-> FALSE, val |-> res.val]

\* ------------------------------------------------------- the remote table
\* The offset token the server hands out with page k, and the envelope at
\* position j of page k.  Every second envelope also has an "id" column among
\* its fields, which the record type deserializes into its identifier.
Token(k) == "off" \o ToString(k)

Envelope(k, j) ==
    [id |-> "rec" \o ToString(k) \o "x" \o ToString(j),
     fields |-> [id |-> IF j % 2 = 0 THEN Some("column") ELSE None,
                 word |-> "word" \o ToString(k) \o "x" \o ToString(j)]]

\* A chain of wire pages: shape[k] records on page k, a non-empty offset on
\* every page but the last, whose offset is the empty string (or is left out
\* of the response altogether, see Transport_send).
Chain(shape) ==
    [k \in 1..Len(shape) |->
        [records |-> [j \in 1..shape[k] |-> Envelope(k, j)],
         offset |-> IF k < Len(shape) THEN Some(Token(k)) ELSE Some("")]]

Shapes == UNION {[1..n -> 0..MaxRecs] : n \in 1..MaxPages}

\* The page the server answers a GET with: page one for the empty offset, the
\* successor of the page that handed the token out otherwise; 0 = no such page.
PageIndex(chain, off) ==
    IF off = "" THEN 1
    ELSE LET S == {k \in 1..(Len(chain) - 1) : chain[k].offset = Some(off)}
         IN IF S = {} THEN 0 ELSE (CHOOSE k \in S : TRUE) + 1

\* ------------------------------------------------------------- variables
VARIABLES
    stage,          \* "builder": QueryBuilder in the caller's hands; "paginator"
    query_builder,  \* QueryBuilder { fields, view, formula, sort }
    offset,         \* Paginator.offset : Option<String>
    iterator,       \* Paginator.iterator : the unconsumed part of the window
    panicked,       \* the calling thread has unwound
    remote,         \* the remote table: the number of records on each page
    gets,           \* history: the number of GETs issued
    lastGet,        \* history: the URL of the latest GET
    lastResponse,   \* history: what became of the GET of the latest next()
    yielded,        \* history: the items next() returned, with their origin
    ret,            \* history: the return value of the latest next()
    firstEnd,       \* history: the counts when next() first returned None
    windowPage,     \* history: the page the current window was decoded from
    windowLen,      \* history: the size of the current window when decoded
    failures,       \* history: the number of failed GETs
    sortArgs,       \* history: the arguments of the sort calls, in call order
    lastArgs,       \* history: the argument of the latest view and formula call
    paginators,     \* two further paginators built on the same Base
    lastWrite       \* history: the latest create or update call and its effects

vars == <<stage, query_builder, offset, iterator, panicked, remote, gets,
          lastGet, lastResponse, yielded, ret, firstEnd, windowPage,
          windowLen, failures, sortArgs, lastArgs, lastWrite, paginators>>

\* ---------------------------------------------------------- QueryBuilder
Base_query == [fields |-> None, view |-> None, formula |-> None, sort |-> None]

QueryBuilder_view(self, view) == [self EXCEPT !.view = Some(view)]

\* (variant: formula stores its argument in the view field)
QueryBuilder_formula_as_view(self, formula) == [self EXCEPT !.view = Some(formula)]

QueryBuilder_formula(self, formula) == [self EXCEPT !.formula = Some(formula)]

\* (variant: the Some arm assigns a fresh vector instead of pushing)
QueryBuilder_sort_overwrite(self, field, direction) ==
    [self EXCEPT !.sort = Some(<<<<field, direction>>>>)]

QueryBuilder_sort(self, field, direction) ==
    IF is_none(self.sort)
    THEN [self EXCEPT !.sort = Some(<<<<field, direction>>>>)]
    ELSE [self EXCEPT !.sort = Some(Append(unwrap(self.sort), <<field, direction>>))]

SortDirection_to_string(direction) ==
    IF direction = "Descending" THEN "desc" ELSE "asc"

\* -------------------------------------------------------------- Paginator
\* url.query_pairs_mut().append_pair(k, v).  The pairs are kept as the
\* strings handed to append_pair; their form-urlencoding is one-to-one and
\* happens when the URL is written out.
append_pair(url, k, v) == [url EXCEPT !.query = Append(@, <<k, v>>)]

\* (variant: the clause index written into the key counts from one)
RECURSIVE AppendSorts_from_one(_, _, _)
AppendSorts_from_one(url, sort, i) ==
    IF i >= Len(sort) THEN url
    ELSE AppendSorts_from_one(
            append_pair(
                append_pair(url, "sort[" \o ToString(i + 1) \o "][field]", sort[i + 1][1]),
                "sort[" \o ToString(i + 1) \o "][direction]",
                SortDirection_to_string(sort[i + 1][2])),
            sort, i + 1)

RECURSIVE AppendSorts(_, _, _)
AppendSorts(url, sort, i) ==
    IF i >= Len(sort) THEN url
    ELSE AppendSorts(
            append_pair(
                append_pair(url, "sort[" \o ToString(i) \o "][field]", sort[i + 1][1]),
                "sort[" \o ToString(i) \o "][direction]",
                SortDirection_to_string(sort[i + 1][2])),
            sort, i + 1)

BasePath == URL \o "/" \o AppKey \o "/" \o TableName

\* (variant: every request asks for the first page)
OffsetParam_empty(self) == ""

\* The value of the offset parameter: self.offset.as_ref().unwrap()
OffsetParam(self) == unwrap(self.offset)

\* The URL of the GET: requires self.offset to be Some.
BuildUrl(self) ==
    LET u0 == [path |-> BasePath, query |-> <<>>]
        u1 == append_pair(u0, "offset", OffsetParam(self))
        u2 == IF is_some(self.query_builder.view)
              THEN append_pair(u1, "view", unwrap(self.query_builder.view))
              ELSE u1
        u3 == IF is_some(self.query_builder.formula)
              THEN append_pair(u2, "filterByFormula", unwrap(self.query_builder.formula))
              ELSE u2
    IN IF is_some(self.query_builder.sort)
       THEN AppendSorts(u3, unwrap(self.query_builder.sort), 0)
       ELSE u3

\* http_client.get(url).send(): the transport fails, or the server answers
\* with the page the offset of the URL stands for.  The server may leave the
\* offset out of the last page instead of sending it empty.
Transport_send(chain, url, outcome) ==
    IF outcome = "send_err" THEN Err
    ELSE LET k == PageIndex(chain, url.query[1][2])
         IN Ok([page |-> k, garbled |-> outcome = "json_err",
                absent |-> outcome = "ok_absent"])

\* response.json::<RecordPage<T>>(): an absent offset takes the default, the
\* empty string (serde(default) on RecordPage.offset).
Response_json(chain, response) ==
    IF response.garbled \/ response.page = 0 THEN Err
    ELSE LET wire == chain[response.page]
             woffset == IF response.absent THEN None ELSE wire.offset
         IN Ok([records |-> wire.records,
                offset |-> IF is_none(woffset) THEN "" ELSE unwrap(woffset)])

\* T::deserialize of an envelope's fields, and the Record capability.
Deserialize_T(fields) ==
    [id |-> IF is_none(fields.id) THEN "" ELSE unwrap(fields.id),
     word |-> fields.word]

set_id(record_t, id) == [record_t EXCEPT !.id = id]

\* (variant: the offset of the page is stored without the is_empty test)
NewOffset_unchecked(results) == Some(results.offset)

NewOffset(results) ==
    IF results.offset = "" THEN None ELSE Some(results.offset)

\* (variant: the map closure leaves out set_id)
Window_without_set_id(results) ==
    [j \in 1..Len(results.records) |-> Deserialize_T(results.records[j].fields)]

Window(results) ==
    [j \in 1..Len(results.records) |->
        set_id(Deserialize_T(results.records[j].fields), results.records[j].id)]

\* self.iterator.next() of a vec::IntoIter
IntoIter_next(it) ==
    IF it = <<>> THEN [item |-> None, rest |-> <<>>]
    ELSE [item |-> Some(Head(it)), rest |-> Tail(it)]

\* (variant: the buffered item is not returned before the fetch)
ReturnsBuffered_never(next) == FALSE

\* `if next.is_some() { return next; }` and `if self.offset.is_none() { return None; }`
ReturnsBuffered(next) == is_some(next)

\* (variant: a paginator with an empty window always reports the end)
AtEnd_always(self) == TRUE

\* (variant: the pending offset is not tested before it is unwrapped)
AtEnd_never(self) == FALSE

AtEnd(self) == is_none(self.offset)

\* (variant: building the URL takes the view out of the specification)
BorrowQuery_take_view(self) == [self.query_builder EXCEPT !.view = None]

\* The specification after the URL is built: its fields are read through
\* is_some() and as_ref(), none is taken or assigned.
BorrowQuery(self) == self.query_builder

\* (variant: a failed request is recorded as the end of the table)
EarlyReturn_exhausts(same, url, kind) ==
    [same EXCEPT !.offset = None, !.get = Some(url),
                 !.response = Some([kind |-> kind, page |-> 0])]

\* The `?` after send() and after json(): next returns None at once; the GET
\* was issued and nothing of self has been assigned yet.
EarlyReturn(same, url, kind) ==
    [same EXCEPT !.get = Some(url), !.response = Some([kind |-> kind, page |-> 0])]

\* Paginator::next.  The result names the new fields of self, the return
\* value, the GET issued (if any), and what became of it.
Paginator_next(self, chain, outcome) ==
    LET n == IntoIter_next(self.iterator)
        same == [offset |-> self.offset, iterator |-> n.rest,
                 query_builder |-> self.query_builder, ret |-> None,
                 get |-> None, response |-> None, panic |-> FALSE]
    IN IF ReturnsBuffered(n.item)
       THEN [same EXCEPT !.ret = n.item]
       ELSE IF AtEnd(self)
       THEN same
       ELSE IF is_none(self.offset)
       THEN [same EXCEPT !.panic = TRUE]
       ELSE
         LET url == BuildUrl(self)
             sent == OkTry(Transport_send(chain, url, outcome))
             built == [same EXCEPT !.query_builder = BorrowQuery(self)]
         IN IF sent.panic \/ sent.return
            THEN [EarlyReturn(built, url, "send_err") EXCEPT !.panic = sent.panic]
            ELSE
              LET decoded == OkTry(Response_json(chain, sent.val))
              IN IF decoded.panic \/ decoded.return
                 THEN [EarlyReturn(built, url, "json_err") EXCEPT !.panic = decoded.panic]
                 ELSE
                   LET results == decoded.val
                       m == IntoIter_next(Window(results))
                   IN [offset |-> NewOffset(results), iterator |-> m.rest,
                       query_builder |-> built.query_builder,
                       ret |-> m.item, get |-> Some(url),
                       response |-> Some([kind |-> outcome, page |-> sent.val.page]),
                       panic |-> FALSE]

\* ------------------------------------------------------- create / update
\* The records a caller hands to create and update, and what the codec, the
\* transport and the server may do with the call.
RecordIds == {"", "recA", "recB"}
Words == {"lurid", "vapid", "turgid"}
Records == [id : RecordIds, word : Words]
Statuses == {200, 201, 304, 404, 500}

WriteOutcomes ==
    {[kind |-> "ser_err", status |-> 0], [kind |-> "send_err", status |-> 0]}
        \cup {[kind |-> "status", status |-> s] : s \in Statuses}

\* Word::serialize: the identifier is marked skip_serializing.
Serialize_T(record) == [word |-> record.word]

\* SRecord::serialize, a JSON object: `id` is marked skip_serializing, so the
\* object has the one member `fields`.
Serialize_SRecord(srecord) == [fields |-> Serialize_T(srecord.fields)]

\* serde_json::to_string: the JSON text, or an error of the record's
\* serializer.  The text is kept as the JSON value it denotes.
to_string(srecord, outcome) ==
    IF outcome.kind = "ser_err" THEN Err ELSE Ok(Serialize_SRecord(srecord))

\* RequestBuilder::send: a transport error, or the server's response.
Client_send(request, outcome) ==
    IF outcome.kind = "send_err" THEN Err ELSE Ok([status |-> outcome.status])

is_client_error(status) == status \in 400..499
is_server_error(status) == status \in 500..599

\* (variant: the result of error_for_status is dropped, no `?`)
error_for_status_ignored(response) == Ok(response)

\* Response::error_for_status: an error for a 4xx or 5xx status, the
\* response itself for every other status.
error_for_status(response) ==
    IF is_client_error(response.status) \/ is_server_error(response.status)
    THEN Err ELSE Ok(response)

\* What a write call does once the record is wrapped: serialize, send,
\* check the status; each `?` returns the error to the caller.
Write(method, url, serializing_record, outcome) ==
    LET json == to_string(serializing_record, outcome)
        request == [method |-> method, url |-> url, body |-> json.val]
        sent == Client_send(request, outcome)
    IN IF ~json.ok THEN [requests |-> <<>>, result |-> Err]
       ELSE IF ~sent.ok THEN [requests |-> <<request>>, result |-> Err]
       ELSE IF ~error_for_status(sent.val).ok
       THEN [requests |-> <<request>>, result |-> Err]
       ELSE [requests |-> <<request>>, result |-> Ok(<<>>)]

Base_create(record, outcome) ==
    Write("POST", BasePath, [id |-> "", fields |-> record], outcome)

\* (variant: update refuses a record whose identifier is empty)
Base_update_validating(record, outcome) ==
    IF record.id = "" THEN [requests |-> <<>>, result |-> Err]
    ELSE Write("PATCH", BasePath \o "/" \o record.id,
               [id |-> record.id, fields |-> record], outcome)

Base_update(record, outcome) ==
    Write("PATCH", BasePath \o "/" \o record.id,
          [id |-> record.id, fields |-> record], outcome)

\* ----------------------------------------------------------------- Init
Init ==
    /\ stage = "builder"
    /\ query_builder = Base_query
    /\ offset = None
    /\ iterator = <<>>
    /\ panicked = FALSE
    /\ remote \in Shapes
    /\ gets = 0
    /\ lastGet = None
    /\ lastResponse = None
    /\ yielded = <<>>
    /\ ret = None
    /\ firstEnd = None
    /\ windowPage = 0
    /\ windowLen = 0
    /\ failures = 0
    /\ sortArgs = <<>>
    /\ lastArgs = [view |-> None, formula |-> None]
    /\ lastWrite = None
    /\ paginators = [i \in 1..2 |-> None]

paginatorVars == <<offset, iterator, panicked, gets, lastGet, lastResponse,
                   yielded, ret, firstEnd, windowPage, windowLen, failures>>

\* -------------------------------------------------------------- actions
View ==
    /\ stage = "builder"
    /\ \E v \in ViewNames :
        /\ query_builder' = QueryBuilder_view(query_builder, v)
        /\ lastArgs' = [lastArgs EXCEPT !.view = Some(v)]
    /\ UNCHANGED <<stage, remote, sortArgs, lastWrite, paginators>>
    /\ UNCHANGED paginatorVars

Formula ==
    /\ stage = "builder"
    /\ \E f \in Formulas :
        /\ query_builder' = QueryBuilder_formula(query_builder, f)
        /\ lastArgs' = [lastArgs EXCEPT !.formula = Some(f)]
    /\ UNCHANGED <<stage, remote, sortArgs, lastWrite, paginators>>
    /\ UNCHANGED paginatorVars

Sort ==
    /\ stage = "builder"
    /\ Len(sortArgs) < MaxSorts
    /\ \E c \in SortClauses :
        /\ query_builder' = QueryBuilder_sort(query_builder, c[1], c[2])
        /\ sortArgs' = Append(sortArgs, c)
    /\ UNCHANGED <<stage, remote, lastArgs, lastWrite, paginators>>
    /\ UNCHANGED paginatorVars

\* QueryBuilder::into_iter
IntoIter ==
    /\ stage = "builder"
    /\ stage' = "paginator"
    /\ offset' = Some("")
    /\ iterator' = <<>>
    /\ UNCHANGED <<query_builder, panicked, remote, gets, lastGet, lastResponse,
                   yielded, ret, firstEnd, windowPage, windowLen, failures,
                   sortArgs, lastArgs, lastWrite, paginators>>

\* What the transport and the server may do with a GET.
Outcomes ==
    {"ok", "ok_absent"}
        \cup (IF failures < MaxFailures THEN {"send_err", "json_err"} ELSE {})

\* One call of Paginator::next by the caller.
Next_ ==
    /\ stage = "paginator"
    /\ ~panicked
    /\ \E outcome \in Outcomes :
      \E self \in {[offset |-> offset, iterator |-> iterator,
                     query_builder |-> query_builder]}, chain \in {Chain(remote)} :
      \E r \in {Paginator_next(self, chain, outcome)} :
        LET fetched == is_some(r.response) /\ unwrap(r.response).page > 0
            failed == is_some(r.get) /\ ~fetched
            wp == IF fetched THEN unwrap(r.response).page ELSE windowPage
            wl == IF fetched THEN Len(r.iterator) + Len(r.ret) ELSE windowLen
        IN /\ is_none(r.get) => outcome = "ok"
           /\ outcome = "ok_absent" => (fetched /\ unwrap(r.response).page = Len(remote))
           /\ offset' = r.offset
           /\ iterator' = r.iterator
           /\ query_builder' = r.query_builder
           /\ panicked' = r.panic
           /\ ret' = r.ret
           /\ gets' = gets + Len(r.get)
           /\ lastGet' = IF is_some(r.get) THEN r.get ELSE lastGet
           /\ lastResponse' = r.response
           /\ failures' = IF failed THEN failures + 1 ELSE failures
           /\ windowPage' = wp
           /\ windowLen' = wl
           /\ yielded' = IF is_some(r.ret)
                         THEN Append(yielded, [item |-> unwrap(r.ret), page |-> wp,
                                               pos |-> wl - Len(r.iterator)])
                         ELSE yielded
           /\ firstEnd' = IF is_none(r.ret) /\ ~r.panic /\ is_none(firstEnd)
                          THEN Some([nyield |-> Len(yielded), gets |-> gets',
                                     failures |-> failures'])
                          ELSE firstEnd
    /\ UNCHANGED <<stage, remote, sortArgs, lastArgs, lastWrite, paginators>>

Next == View \/ Formula \/ Sort \/ IntoIter \/ Next_

Spec == Init /\ [][Next]_vars

\* A caller that turns a specification into a paginator and then keeps
\* calling next for as long as a call can change anything (the loop
\* `for r in query { .. }` together with further calls after a None).
NextIterate == IntoIter \/ Next_

SpecLive == Init /\ [][NextIterate]_vars /\ WF_vars(Next_)

\* ------------------------------------------- two paginators on one Base
\* The specifications the two callers build on the shared Base: caller 1
\* selects a view, caller 2 filters by a formula.
QuerySpecs == <<QueryBuilder_view(Base_query, "V"), QueryBuilder_formula(Base_query, "F")>>

\* QueryBuilder::into_iter as a value: the fields of the new Paginator.
QueryBuilder_into_iter(self) ==
    [offset |-> Some(""), iterator |-> <<>>, query_builder |-> self]

\* A paginator nobody has called yet, with the record of what its caller
\* has observed: GETs issued, the latest GET, the latest return value, the
\* number of items returned.
Fresh(qb) ==
    [self |-> QueryBuilder_into_iter(qb), gets |-> 0, lastGet |-> None,
     ret |-> None, nyield |-> 0, panic |-> FALSE]

\* One call of next on the paginator t.self, reading the shared Base.
Called(t, chain, outcome) ==
    LET r == Paginator_next(t.self, chain, outcome)
    IN [self |-> [offset |-> r.offset, iterator |-> r.iterator,
                  query_builder |-> r.query_builder],
        gets |-> t.gets + Len(r.get),
        lastGet |-> IF is_some(r.get) THEN r.get ELSE t.lastGet,
        ret |-> r.ret,
        nyield |-> t.nyield + Len(r.ret),
        panic |-> r.panic]

\* (variant: the pending offset is a field of the Base, shared by both)
Paginator_own_shared_offset(ps, i, entry) ==
    [j \in 1..2 |->
        IF j = i THEN Some(entry)
        ELSE IF is_none(ps[j]) THEN None
        ELSE Some([unwrap(ps[j]) EXCEPT !.now.self.offset = entry.now.self.offset])]

\* The Paginator struct: offset, iterator and query_builder are fields of
\* the Paginator itself; `base` is a shared reference that next only reads.
\* A step of paginator i therefore writes paginator i only.
Paginator_own(ps, i, entry) == [ps EXCEPT ![i] = Some(entry)]

Errors(outs) == Cardinality({k \in 1..Len(outs) : outs[k] \in {"send_err", "json_err"}})

OutsOf(ps, i) == IF is_none(ps[i]) THEN <<>> ELSE unwrap(ps[i]).outs

\* Caller i turns a specification into a paginator.
IntoIter2(i) ==
    /\ is_none(paginators[i])
    /\ paginators' = Paginator_own(paginators, i,
                         [spec |-> QuerySpecs[i], outs |-> <<>>,
                          now |-> Fresh(QuerySpecs[i])])
    /\ UNCHANGED <<stage, query_builder, remote, sortArgs, lastArgs, lastWrite>>
    /\ UNCHANGED paginatorVars

\* Caller i calls next on its paginator, at any point of the other's run.
Next2(i) ==
    /\ is_some(paginators[i])
    /\ Len(unwrap(paginators[i]).outs) < MaxCalls
    /\ ~unwrap(paginators[i]).now.panic
    /\ \E outcome \in {"ok"} \cup
             (IF Errors(OutsOf(paginators, 1)) + Errors(OutsOf(paginators, 2)) < MaxFailures
              THEN {"send_err", "json_err"} ELSE {}) :
         LET p == unwrap(paginators[i])
         IN \E t \in {Called(p.now, Chain(remote), outcome)} :
              /\ (t.gets = p.now.gets) => outcome = "ok"
              /\ paginators' = Paginator_own(paginators, i,
                                    [p EXCEPT !.outs = Append(p.outs, outcome),
                                              !.now = t])
    /\ UNCHANGED <<stage, query_builder, remote, sortArgs, lastArgs, lastWrite>>
    /\ UNCHANGED paginatorVars

NextTwo == \E i \in 1..2 : IntoIter2(i) \/ Next2(i)

SpecTwo == Init /\ [][NextTwo]_vars

\* One call of Base::create, and one of Base::update.
Create ==
    /\ \E record \in Records, outcome \in WriteOutcomes :
        LET r == Base_create(record, outcome)
        IN lastWrite' = Some([op |-> "create", record |-> record, outcome |-> outcome,
                              requests |-> r.requests, result |-> r.result])
    /\ UNCHANGED <<stage, query_builder, remote, sortArgs, lastArgs, paginators>>
    /\ UNCHANGED paginatorVars

Update ==
    /\ \E record \in Records, outcome \in WriteOutcomes :
        LET r == Base_update(record, outcome)
        IN lastWrite' = Some([op |-> "update", record |-> record, outcome |-> outcome,
                              requests |-> r.requests, result |-> r.result])
    /\ UNCHANGED <<stage, query_builder, remote, sortArgs, lastArgs, paginators>>
    /\ UNCHANGED paginatorVars

NextWrite == Create \/ Update

SpecWrite == Init /\ [][NextWrite]_vars

TypeOK ==
    /\ stage \in {"builder", "paginator"}
    /\ failures <= MaxFailures

\* ------------------------------------------------- what the remote holds
\* The record the caller should see for the envelope at position j of page k.
Expected(k, j) == [id |-> Envelope(k, j).id, word |-> Envelope(k, j).fields.word]

RECURSIVE AllRecords(_, _)
AllRecords(shape, k) ==
    IF k > Len(shape) THEN <<>>
    ELSE [j \in 1..shape[k] |-> Expected(k, j)] \o AllRecords(shape, k + 1)

Items(n) == [i \in 1..n |-> yielded[i].item]

\* The offset string of page k as the codec decodes it ("" for page 0, the
\* state in which nothing has been decoded yet).
PageOffset(k) ==
    IF k = 0 \/ k = Len(remote) THEN "" ELSE unwrap(Chain(remote)[k].offset)

QueryOf(url) == {url.query[i] : i \in 1..Len(url.query)}

Keys(url) == [i \in 1..Len(url.query) |-> url.query[i][1]]

\* ------------------------------------------------------------------ C1
\* C1: when no GET fails, the items yielded up to the first end-of-sequence
\* are the concatenation of the records of all pages of the chain, in order,
\* and exactly as many GETs as the chain has pages were issued.
C1_WholeChain ==
    (is_some(firstEnd) /\ unwrap(firstEnd).failures = 0) =>
        /\ Items(unwrap(firstEnd).nyield) = AllRecords(remote, 1)
        /\ unwrap(firstEnd).gets = Len(remote)

\* ------------------------------------------------------------------ C2
\* C2: when the first GET is answered with a page whose offset is empty or
\* absent, exactly one GET is ever issued, what is yielded is a prefix of that
\* page's records, and the sequence ends after exactly that page's records
\* (at the first call when the page is empty).
C2_SinglePage ==
    (Len(remote) = 1 /\ gets >= 1 /\ failures = 0) =>
        /\ gets = 1
        /\ Len(yielded) <= remote[1]
        /\ Items(Len(yielded)) = SubSeq(AllRecords(remote, 1), 1, Len(yielded))
        /\ is_some(firstEnd) =>
              /\ unwrap(firstEnd).nyield = remote[1]
              /\ unwrap(firstEnd).gets = 1
              /\ Len(yielded) = remote[1]
        /\ remote[1] = 0 => is_some(firstEnd)

C2_Witness ==
    /\ remote = <<2>>
    /\ gets = 1
    /\ failures = 0
    /\ Len(yielded) = 2
    /\ is_some(firstEnd)
    /\ lastResponse = None

\* ------------------------------------------------------------------ C3
\* C3: a step issues a GET only from a paginator whose window is used up and
\* whose pending offset is recorded, and issues at most one; a call that finds
\* a buffered item returns it and issues nothing; after the first item of any
\* result has been consumed, exactly one GET has been issued.
C3_OnDemand ==
    /\ []((Len(yielded) = 1 /\ is_none(firstEnd)) => gets = 1)
    /\ [][/\ gets' <= gets + 1
          /\ gets' # gets => (stage = "paginator" /\ iterator = <<>> /\ is_some(offset))
          /\ iterator # <<>> => (/\ gets' = gets
                                 /\ ret' = Some(Head(iterator))
                                 /\ iterator' = Tail(iterator))]_vars

C3_Witness ==
    /\ Len(remote) = 2
    /\ remote[1] = 2
    /\ Len(yielded) = 1
    /\ is_none(firstEnd)
    /\ gets = 1
    /\ is_some(offset)

\* ------------------------------------------------------------------ C4
\* C4: every GET carries view=<view> iff a view was set, filterByFormula=
\* <formula> iff a formula was set, and for the i-th sort call (counting from
\* 0) the pairs sort[i][field]=<field> and sort[i][direction]=asc|desc, "desc"
\* for Descending and "asc" for Ascending; apart from the offset it carries
\* nothing else.
C4_QueryParams ==
    is_some(lastGet) =>
        LET url == unwrap(lastGet)
            q == QueryOf(url)
            qb == query_builder
            keyed(k) == {p \in q : p[1] = k}
        IN /\ keyed("view") = {<<"view", v[1]>> : v \in {qb.view} \ {None}}
           /\ keyed("filterByFormula") =
                 {<<"filterByFormula", f[1]>> : f \in {qb.formula} \ {None}}
           /\ \A i \in 1..Len(sortArgs) :
                 /\ keyed("sort[" \o ToString(i - 1) \o "][field]") =
                       {<<"sort[" \o ToString(i - 1) \o "][field]", sortArgs[i][1]>>}
                 /\ keyed("sort[" \o ToString(i - 1) \o "][direction]") =
                       {<<"sort[" \o ToString(i - 1) \o "][direction]",
                          CASE sortArgs[i][2] = "Descending" -> "desc"
                            [] sortArgs[i][2] = "Ascending" -> "asc">>}
           /\ Len(url.query) = 1 + Len(qb.view) + Len(qb.formula) + 2 * Len(sortArgs)
           /\ Cardinality(q) = Len(url.query)

C4_Witness ==
    /\ gets = 2
    /\ windowPage = 2
    /\ query_builder.view = Some("V")
    /\ query_builder.formula = Some("F")
    /\ sortArgs = <<<<"A", "Descending">>, <<"B", "Ascending">>>>
    /\ <<"sort[1][direction]", "asc">> \in QueryOf(unwrap(lastGet))

\* ------------------------------------------------------------------ C5
\* C5 as stated: every GET carries an offset parameter, the first GET the
\* empty string and every later GET the offset of the most recently decoded
\* page; a decode leaves the pending offset absent when the page's offset is
\* empty or absent and equal to the page's offset otherwise.
C5_OffsetOfLastPage ==
    [][/\ gets' # gets =>
            /\ unwrap(lastGet').query[1][1] = "offset"
            /\ IF gets = 0 THEN unwrap(lastGet').query[1][2] = ""
               ELSE /\ windowPage > 0
                    /\ unwrap(lastGet').query[1][2] = PageOffset(windowPage)
       /\ windowPage' # windowPage =>
            offset' = IF PageOffset(windowPage') = "" THEN None
                      ELSE Some(PageOffset(windowPage'))]_vars

\* C5 as amended: every GET carries an offset parameter; a GET issued before
\* any page has been decoded carries the empty string, and every GET issued
\* after one carries the offset of the most recently decoded page; a decode
\* leaves the pending offset absent when the page's offset is empty or absent
\* and equal to the page's offset otherwise.
C5_OffsetPassThrough ==
    [][/\ gets' # gets =>
            /\ unwrap(lastGet').query[1][1] = "offset"
            /\ Len(SelectSeq(Keys(unwrap(lastGet')), LAMBDA k : k = "offset")) = 1
            /\ IF windowPage = 0 THEN unwrap(lastGet').query[1][2] = ""
               ELSE unwrap(lastGet').query[1][2] = PageOffset(windowPage)
       /\ windowPage' # windowPage =>
            offset' = IF PageOffset(windowPage') = "" THEN None
                      ELSE Some(PageOffset(windowPage'))]_vars

C5_Witness ==
    /\ Len(remote) = 2
    /\ gets = 2
    /\ failures = 0
    /\ windowPage = 2
    /\ <<"offset", Token(1)>> \in QueryOf(unwrap(lastGet))
    /\ offset = None

\* ------------------------------------------------------------------ C6
\* C6: every yielded record has the identifier and the fields of the envelope
\* at its own position of its own page.
C6_Identifier ==
    \A i \in 1..Len(yielded) :
        /\ yielded[i].page \in 1..Len(remote)
        /\ yielded[i].pos \in 1..remote[yielded[i].page]
        /\ yielded[i].item.id = Envelope(yielded[i].page, yielded[i].pos).id
        /\ yielded[i].item.word = Envelope(yielded[i].page, yielded[i].pos).fields.word

C6_Witness ==
    /\ Len(yielded) = 3
    /\ yielded[2].pos = 2
    /\ is_some(Envelope(yielded[2].page, 2).fields.id)
    /\ yielded[3].page = 2
    /\ yielded[3].item.id = Envelope(2, 1).id

\* ------------------------------------------------------------------ C7
\* C7: a next() whose GET fails in the transport or in the decoding returns
\* end-of-sequence, and does not panic.
C7_FailureEndsSequence ==
    (is_some(lastResponse) /\ unwrap(lastResponse).kind \in {"send_err", "json_err"}) =>
        /\ ret = None
        /\ ~panicked

C7_Witness ==
    /\ lastResponse = Some([kind |-> "json_err", page |-> 0])
    /\ gets = 2
    /\ Len(yielded) = 1
    /\ ret = None

\* ------------------------------------------------------------------ C8
\* C8: the body of create has no id member, the body of update has an id
\* member equal to the record's non-empty identifier, and both bodies carry
\* the record's fields under `fields`.
C8_EnvelopeBodies ==
    (is_some(lastWrite) /\ unwrap(lastWrite).requests # <<>>) =>
        LET w == unwrap(lastWrite)
            body == w.requests[1].body
        IN /\ "fields" \in DOMAIN body
           /\ body.fields = [word |-> w.record.word]
           /\ w.op = "create" => "id" \notin DOMAIN body
           /\ (w.op = "update" /\ w.record.id # "") =>
                 ("id" \in DOMAIN body /\ body.id = w.record.id)

C10_SortAdditive ==
    query_builder.sort = IF sortArgs = <<>> THEN None ELSE Some(sortArgs)

C10_Witness ==
    /\ stage = "builder"
    /\ sortArgs = <<<<"B", "Ascending">>, <<"B", "Ascending">>>>
    /\ query_builder.sort = Some(sortArgs)
    /\ query_builder.view = Some("W")
    /\ query_builder.formula = Some("G")

\* ----------------------------------------------------------------- C12
\* C12: when no GET has failed and the latest call of next returned
\* end-of-sequence, no pending offset is recorded: the sequence never ends
\* while the last decoded page named a further page.
C12_EndOnlyWithoutOffset ==
    (stage = "paginator" /\ failures = 0 /\ ~panicked
        /\ is_some(firstEnd) /\ ret = None) => offset = None

\* ----------------------------------------------------------------- C13
\* C13: a call of next on a paginator with no pending offset and an empty
\* window returns end-of-sequence, issues no GET, does not panic, and leaves
\* the offset absent and the window empty, so the state is never left.
C13_ExhaustedAbsorbing ==
    [][(stage = "paginator" /\ offset = None /\ iterator = <<>>) =>
          /\ offset' = None
          /\ iterator' = <<>>
          /\ gets' = gets
          /\ lastGet' = lastGet
          /\ ret' = None
          /\ lastResponse' = None
          /\ ~panicked']_vars

C13_Witness ==
    /\ stage = "paginator"
    /\ offset = None
    /\ iterator = <<>>
    /\ Len(remote) = 2
    /\ gets = 2
    /\ Len(yielded) >= 1
    /\ is_some(firstEnd)
    /\ ret = None
    /\ lastResponse = None
    /\ ~panicked

\* ----------------------------------------------------------------- C14
\* C14: a caller that keeps calling next reaches, unless a GET fails, the
\* state with no pending offset and an empty window, having issued exactly
\* as many GETs as the chain has pages.
C14_EventuallyExhausted ==
    (stage = "paginator") ~>
        (failures > 0 \/ (/\ offset = None
                          /\ iterator = <<>>
                          /\ gets = Len(remote)
                          /\ ~panicked))

C14_Witness ==
    /\ stage = "paginator"
    /\ failures = 0
    /\ remote = <<0, 2>>
    /\ offset = None
    /\ iterator = <<>>
    /\ gets = 2
    /\ Len(yielded) = 2
    /\ ~panicked

\* ----------------------------------------------------------------- C15
\* C15: the query specification (view, formula, sort list) held by the
\* paginator is the one into_iter was called on, and no call of next changes
\* it, whether the call returns a buffered item, fetches a page, fails, or
\* reports the end.
C15_QueryFrame ==
    [][stage' = "paginator" => query_builder' = query_builder]_vars

C15_Witness ==
    /\ stage = "paginator"
    /\ query_builder.view = Some("V")
    /\ query_builder.formula = Some("F")
    /\ query_builder.sort = Some(<<<<"A", "Descending">>>>)
    /\ failures = 1
    /\ gets = 3
    /\ Len(yielded) = 3
    /\ is_some(firstEnd)
    /\ lastResponse = None

\* ----------------------------------------------------------------- C16
\* C16: a paginator starts with the pending offset "" and an empty window;
\* in every state its pending offset is "" exactly when no page has been
\* decoded yet, and once a page has been decoded the pending offset is
\* absent or a non-empty token.
C16_SentinelOffset ==
    stage = "paginator" =>
        /\ gets = 0 => (offset = Some("") /\ iterator = <<>>)
        /\ (offset = Some("")) <=> (windowPage = 0)
        /\ windowPage > 0 => (is_none(offset) \/ unwrap(offset) # "")

C16_Witness ==
    /\ stage = "paginator"
    /\ Len(remote) = 2
    /\ failures = 1
    /\ gets = 2
    /\ windowPage = 1
    /\ offset = Some(Token(1))

\* ----------------------------------------------------------------- C17
\* C17: a call of next whose GET fails (in transport or in decoding) returns
\* end-of-sequence and leaves the pending offset and the empty window as
\* they were, so the offset is still recorded; and the call of next that
\* follows a failed one issues a GET with the same path, the same offset and
\* the same query parameters.
C17_FailedFetchKeepsCursor ==
    [][/\ (stage = "paginator" /\ failures' = failures + 1) =>
            /\ offset' = offset
            /\ is_some(offset')
            /\ iterator = <<>>
            /\ iterator' = <<>>
            /\ ret' = None
            /\ gets' = gets + 1
       /\ (stage = "paginator" /\ is_some(lastResponse)
             /\ unwrap(lastResponse).kind \in {"send_err", "json_err"}) =>
            /\ gets' = gets + 1
            /\ lastGet' = lastGet]_vars

C17_Witness ==
    /\ stage = "paginator"
    /\ remote = <<1, 1>>
    /\ failures = 1
    /\ gets = 3
    /\ windowPage = 2
    /\ Len(yielded) = 2
    /\ is_some(firstEnd)
    /\ unwrap(firstEnd).nyield = 1
    /\ offset = None

\* ----------------------------------------------------------------- C19
\* C19: the view of the specification is the argument of the latest view
\* call and unset when there was none, the formula likewise; a view or
\* formula call leaves the other of the two and the sort list as they were;
\* and a GET built from a specification on which nothing was called carries
\* the offset parameter only.
C19_LastWriteWins ==
    /\ [](/\ query_builder.view = lastArgs.view
          /\ query_builder.formula = lastArgs.formula
          /\ (is_some(lastGet) /\ lastArgs = [view |-> None, formula |-> None]
                /\ sortArgs = <<>>) => Keys(unwrap(lastGet)) = <<"offset">>)
    /\ [][/\ lastArgs'.view # lastArgs.view =>
               /\ query_builder'.formula = query_builder.formula
               /\ query_builder'.sort = query_builder.sort
          /\ lastArgs'.formula # lastArgs.formula =>
               /\ query_builder'.view = query_builder.view
               /\ query_builder'.sort = query_builder.sort]_vars

C19_Witness ==
    /\ lastArgs = [view |-> Some("W"), formula |-> Some("G")]
    /\ query_builder.view = Some("W")
    /\ query_builder.formula = Some("G")
    /\ sortArgs = <<<<"A", "Descending">>>>
    /\ gets = 1
    /\ {<<"view", "W">>, <<"filterByFormula", "G">>} \subseteq QueryOf(unwrap(lastGet))

\* ----------------------------------------------------------------- C18
\* C18 as stated: every update call, whatever the record's identifier,
\* issues exactly one PATCH whose path is the base path, "/" and the
\* identifier; every create call issues exactly one POST to the base path.
C18_OneRequestEveryRecord ==
    is_some(lastWrite) =>
        LET w == unwrap(lastWrite)
        IN /\ Len(w.requests) = 1
           /\ w.op = "update" =>
                 /\ w.requests[1].method = "PATCH"
                 /\ w.requests[1].url = BasePath \o "/" \o w.record.id
           /\ w.op = "create" =>
                 /\ w.requests[1].method = "POST"
                 /\ w.requests[1].url = BasePath

\* C18 as amended: every update call whose record serializes, whatever the
\* record's identifier (the empty one included), issues exactly one PATCH
\* whose path is the base path, "/" and the identifier; every create call
\* whose record serializes issues exactly one POST to the base path; a call
\* whose record does not serialize issues nothing.
C18_NoLocalValidation ==
    is_some(lastWrite) =>
        LET w == unwrap(lastWrite)
        IN IF w.outcome.kind = "ser_err" THEN w.requests = <<>>
           ELSE /\ Len(w.requests) = 1
                /\ w.op = "update" =>
                      /\ w.requests[1].method = "PATCH"
                      /\ w.requests[1].url = BasePath \o "/" \o w.record.id
                      /\ w.record.id = "" =>
                            w.requests[1].url = URL \o "/appWords/Words/"
                /\ w.op = "create" =>
                      /\ w.requests[1].method = "POST"
                      /\ w.requests[1].url = URL \o "/appWords/Words"

C18_Witness ==
    /\ is_some(lastWrite)
    /\ unwrap(lastWrite).op = "update"
    /\ unwrap(lastWrite).record.id = ""
    /\ unwrap(lastWrite).outcome = [kind |-> "status", status |-> 200]
    /\ Len(unwrap(lastWrite).requests) = 1
    /\ unwrap(lastWrite).requests[1].url = BasePath \o "/"
    /\ unwrap(lastWrite).result.ok

\* ----------------------------------------------------------------- C11
\* What a paginator built from qb is after the calls whose GETs met the
\* outcomes outs, when nothing else runs between its calls.
RECURSIVE DrivenAlone(_, _, _)
DrivenAlone(qb, chain, outs) ==
    IF outs = <<>> THEN Fresh(qb)
    ELSE Called(DrivenAlone(qb, chain, SubSeq(outs, 1, Len(outs) - 1)),
                chain, outs[Len(outs)])

====
